---- MODULE Spec2Model ----
(***************************************************************************)
(* Model of lib/config/config.c: the tokeniser, the recursive-descent      *)
(* parser, the serialiser, the path lookups and the document life cycle.   *)
(*                                                                         *)
(* Text is a sequence of one-character strings.  The mapped file occupies  *)
(* the indices fb = 1 .. fe - 1 with fe = Len(buf) + 1, so the pointers    *)
(* p->tb and p->te are indices in 1 .. fe.  The sib/child/next chains of   *)
(* the C structures are sequences, in chain order.                         *)
(***************************************************************************)
EXTENDS Integers, Sequences, FiniteSets, TLC

VARIABLES
    arena,      \* "live" | "released": the pool behind the struct cs
    destroys,   \* number of destroy_config_file calls made
    releases,   \* number of pool_destroy calls that released the pool
    uaf,        \* TRUE once a call has read memory of a released pool
    pc,         \* position of the running call, "idle" between calls
    buf,        \* p->fb .. p->fe: the mapped file
    t, tb, te,  \* p->t, p->tb, p->te
    line,       \* p->line
    nl,         \* history: newline characters _eat_space has passed so far
    unterm,     \* history: _get_token has returned an unterminated string
    blank,      \* history: the text read held only whitespace and comments
    stk,        \* open _file/_section activations: [key, kids]
    nkey,       \* root->key of the node _section is building
    vals,       \* the value chain _value is building
    ret,        \* where _type returns to: "value" | "array"
    root,       \* cf->root
    r,          \* what the last read_config returned
    reads,      \* number of read_config calls that returned
    errline,    \* line of the last log_error of the parser, 0 if none
    written,    \* <<text>> once write_config wrote the file, else << >>
    prev,       \* history: cf->root as write_config serialised it
    rt,         \* TRUE when the last read_config read the written file
    res         \* result of the latest find_config_* call

vars == <<arena, destroys, releases, uaf, pc, buf, t, tb, te, line, nl, unterm,
          blank, stk, nkey, vals, ret, root, r, reads, errline, written, prev,
          rt, res>>

-----------------------------------------------------------------------------
(* Bounds of the model *)

MaxLen == 5        \* longest text drawn over Alphabet
MaxTop == 2        \* most top-level sections of a generated document
MaxPath == 3       \* longest lookup path
MaxDestroy == 2    \* most destroy_config_file calls

-----------------------------------------------------------------------------
(* Characters *)

Digits == {"0", "1", "2", "3", "4", "5", "6", "7", "8", "9"}

DigitVal(c) ==
    CASE c = "0" -> 0 [] c = "1" -> 1 [] c = "2" -> 2 [] c = "3" -> 3
      [] c = "4" -> 4 [] c = "5" -> 5 [] c = "6" -> 6 [] c = "7" -> 7
      [] c = "8" -> 8 [] c = "9" -> 9

DigitChar(d) ==
    CASE d = 0 -> "0" [] d = 1 -> "1" [] d = 2 -> "2" [] d = 3 -> "3"
      [] d = 4 -> "4" [] d = 5 -> "5" [] d = 6 -> "6" [] d = 7 -> "7"
      [] d = 8 -> "8" [] d = 9 -> "9"

isdigit(c) == c \in Digits

isspace(c) == c \in {" ", "\t", "\n"}

-----------------------------------------------------------------------------
(* Token and value types *)

TOK_INT == "TOK_INT"
TOK_FLOAT == "TOK_FLOAT"
TOK_STRING == "TOK_STRING"
TOK_EQ == "TOK_EQ"
TOK_SECTION_B == "TOK_SECTION_B"
TOK_SECTION_E == "TOK_SECTION_E"
TOK_ARRAY_B == "TOK_ARRAY_B"
TOK_ARRAY_E == "TOK_ARRAY_E"
TOK_IDENTIFIER == "TOK_IDENTIFIER"
TOK_COMMA == "TOK_COMMA"
TOK_EOF == "TOK_EOF"

CFG_STRING == "CFG_STRING"
CFG_FLOAT == "CFG_FLOAT"
CFG_INT == "CFG_INT"

-----------------------------------------------------------------------------
(* Tokeniser *)

fe(b) == Len(b) + 1

\* _eat_space, the comment loop: to the '\n' or to the end of the file
RECURSIVE SkipComment(_, _)
SkipComment(b, e) ==
    IF e # fe(b) /\ b[e] # "\n" THEN SkipComment(b, e + 1) ELSE e

\* _eat_space, the whitespace loop: [te, line]
RECURSIVE SkipSpace(_, _, _)
SkipSpace(b, e, ln) ==
    IF e # fe(b) /\ isspace(b[e])
    THEN SkipSpace(b, e + 1, IF b[e] = "\n" THEN ln + 1 ELSE ln)
    ELSE [te |-> e, line |-> ln]

\* _eat_space: [te, line]; p->tb = p->te when it returns
RECURSIVE _eat_space(_, _, _)
_eat_space(b, e, ln) ==
    IF e = fe(b) THEN [te |-> e, line |-> ln]
    ELSE IF b[e] = "#" THEN _eat_space(b, SkipComment(b, e), ln + 1)
    ELSE IF isspace(b[e])
         THEN LET s == SkipSpace(b, e, ln) IN _eat_space(b, s.te, s.line)
    ELSE [te |-> e, line |-> ln]

\* _get_token, case '"': the scan to the closing quote or the end of the file
RECURSIVE ScanString(_, _)
ScanString(b, e) ==
    IF e # fe(b) /\ b[e] # "\""
    THEN ScanString(b, IF b[e] = "\\" /\ e + 1 # fe(b) THEN e + 2 ELSE e + 1)
    ELSE e

\* _get_token, the number loop: [t, te]
RECURSIVE ScanNumber(_, _, _)
ScanNumber(b, e, ty) ==
    IF e = fe(b) THEN [t |-> ty, te |-> e]
    ELSE IF b[e] = "."
         THEN IF ty = TOK_FLOAT THEN [t |-> ty, te |-> e]
              ELSE ScanNumber(b, e + 1, TOK_FLOAT)
    ELSE IF ~isdigit(b[e]) THEN [t |-> ty, te |-> e]
    ELSE ScanNumber(b, e + 1, ty)

\* _get_token, the identifier loop
RECURSIVE ScanIdentifier(_, _)
ScanIdentifier(b, e) ==
    IF e # fe(b) /\ ~isspace(b[e]) /\ b[e] # "#" /\ b[e] # "="
    THEN ScanIdentifier(b, e + 1)
    ELSE e

\* _get_token from p->te = e: [t, tb, te, line]
_get_token(b, e, ln) ==
    LET s == _eat_space(b, e, ln)
        b0 == s.te
        tok(ty, end) == [t |-> ty, tb |-> b0, te |-> end, line |-> s.line]
    IN  IF b0 = fe(b) THEN tok(TOK_EOF, b0)
        ELSE LET c == b[b0] IN
             CASE c = "{" -> tok(TOK_SECTION_B, b0 + 1)
               [] c = "}" -> tok(TOK_SECTION_E, b0 + 1)
               [] c = "[" -> tok(TOK_ARRAY_B, b0 + 1)
               [] c = "]" -> tok(TOK_ARRAY_E, b0 + 1)
               [] c = "," -> tok(TOK_COMMA, b0 + 1)
               [] c = "=" -> tok(TOK_EQ, b0 + 1)
               [] c = "\"" ->
                    LET e1 == ScanString(b, b0 + 1)
                    IN  tok(TOK_STRING, IF e1 # fe(b) THEN e1 + 1 ELSE e1)
               [] c = "." ->
                    LET n == ScanNumber(b, b0 + 1, TOK_FLOAT) IN tok(n.t, n.te)
               [] isdigit(c) ->
                    LET n == ScanNumber(b, b0 + 1, TOK_INT) IN tok(n.t, n.te)
               [] OTHER -> tok(TOK_IDENTIFIER, ScanIdentifier(b, b0))

\* the characters of b in [from, to)
Slice(b, from, to) == SubSeq(b, from, to - 1)

-----------------------------------------------------------------------------
(* Numeric conversions.  An int is the decimal value of the digit run; a   *)
(* double is <<n, k>>, standing for n / 10^k with k least.  Texts of the   *)
(* model hold no sign and no exponent, and stay far below the widths of    *)
(* long and int.                                                           *)

RECURSIVE Pow10(_)
Pow10(k) == IF k = 0 THEN 1 ELSE 10 * Pow10(k - 1)

\* the digit run of b from index e on: [n, te]
RECURSIVE DigitRun(_, _, _)
DigitRun(b, e, acc) ==
    IF e # fe(b) /\ isdigit(b[e])
    THEN DigitRun(b, e + 1, 10 * acc + DigitVal(b[e]))
    ELSE [n |-> acc, te |-> e]

\* strtol(p->tb, 0, 10)
strtol(b, from) == DigitRun(b, from, 0).n

RECURSIVE Normal(_)
Normal(d) ==
    IF d[2] > 0 /\ d[1] % 10 = 0 THEN Normal(<<d[1] \div 10, d[2] - 1>>) ELSE d

\* strtod(p->tb, 0)
strtod(b, from) ==
    LET ip == DigitRun(b, from, 0)
    IN  IF ip.te # fe(b) /\ b[ip.te] = "."
        THEN LET fp == DigitRun(b, ip.te + 1, 0)
                 k == fp.te - (ip.te + 1)
             IN  IF ip.te = from /\ k = 0 THEN <<0, 0>>
                 ELSE Normal(<<ip.n * Pow10(k) + fp.n, k>>)
        ELSE <<ip.n, 0>>

\* "%d"
RECURSIVE Decimal(_)
Decimal(n) ==
    IF n < 10 THEN <<DigitChar(n)>>
    ELSE Decimal(n \div 10) \o <<DigitChar(n % 10)>>

FormatD(i) == IF i < 0 THEN <<"-">> \o Decimal(0 - i) ELSE Decimal(i)

\* n as exactly w digits, zero-padded
RECURSIVE Padded(_, _)
Padded(n, w) ==
    IF w = 0 THEN << >> ELSE Padded(n \div 10, w - 1) \o <<DigitChar(n % 10)>>

\* "%f": six digits after the point, rounded
FormatF(d) ==
    LET p == Pow10(d[2])
        ip == d[1] \div p
        fr == d[1] % p
        micro == IF d[2] <= 6 THEN fr * Pow10(6 - d[2])
                 ELSE (fr + Pow10(d[2] - 6) \div 2) \div Pow10(d[2] - 6)
    IN  IF micro = 1000000 THEN Decimal(ip + 1) \o <<".">> \o Padded(0, 6)
        ELSE Decimal(ip) \o <<".">> \o Padded(micro, 6)

-----------------------------------------------------------------------------
(* The document tree *)

\* _create_value: a zeroed struct config_value
_create_value == [type |-> CFG_STRING, i |-> 0, r |-> <<0, 0>>, str |-> << >>]

IntValue(n) == [_create_value EXCEPT !.type = CFG_INT, !.i = n]
FloatValue(d) == [_create_value EXCEPT !.type = CFG_FLOAT, !.r = d]
StringValue(s) == [_create_value EXCEPT !.type = CFG_STRING, !.str = s]

\* _create_node without the memset: child holds what the pool memory held
_create_node_unzeroed(k) ==
    [key |-> k, child |-> <<[key |-> k, child |-> << >>, v |-> << >>]>>,
     v |-> << >>]

\* _create_node: a zeroed struct config_node, then its key
_create_node(k) == [key |-> k, child |-> << >>, v |-> << >>]

-----------------------------------------------------------------------------
(* Serialiser *)

MAX_INDENT == 32

RECURSIVE Spaces(_)
Spaces(n) == IF n = 0 THEN << >> ELSE <<" ">> \o Spaces(n - 1)

_write_value(v) ==
    CASE v.type = CFG_STRING -> <<"\"">> \o v.str \o <<"\"">>
      [] v.type = CFG_FLOAT -> FormatF(v.r)
      [] v.type = CFG_INT -> FormatD(v.i)

\* the loop over an array's values
RECURSIVE WriteArray(_)
WriteArray(v) ==
    IF Len(v) = 1 THEN _write_value(v[1])
    ELSE _write_value(v[1]) \o <<",", " ">> \o WriteArray(Tail(v))

RECURSIVE _write_config(_, _)
_write_config(n, level) ==
    IF n = << >> THEN << >>
    ELSE LET space == Spaces(IF level < MAX_INDENT THEN level ELSE MAX_INDENT)
             cn == Head(n)
             body ==
                 IF cn.v = << >>
                 THEN <<" ", "{", "\n">> \o _write_config(cn.child, level + 1)
                      \o space \o <<"}">>
                 ELSE <<"=">> \o
                      (IF Len(cn.v) > 1
                       THEN <<"[">> \o WriteArray(cn.v) \o <<"]">>
                       ELSE _write_value(cn.v[1]))
         IN  space \o cn.key \o body \o <<"\n">> \o _write_config(Tail(n), level)

-----------------------------------------------------------------------------
(* Path lookup.  A node pointer is the node's position: the sibling index  *)
(* at each level from cf->root down; NULL is the empty position.           *)

NULL == << >>

\* _tok_match(str, b, e), seg being the characters of [b, e)
RECURSIVE _tok_match(_, _)
_tok_match(str, seg) ==
    IF str # << >> /\ seg # << >>
    THEN IF Head(str) # Head(seg) THEN FALSE
         ELSE _tok_match(Tail(str), Tail(seg))
    ELSE ~(str # << >> \/ seg # << >>)

\* "trim any leading slashes"
RECURSIVE TrimSep(_, _)
TrimSep(path, sep) ==
    IF path # << >> /\ Head(path) = sep THEN TrimSep(Tail(path), sep) ELSE path

\* "find the end of this segment": the index e of the separator or of the NUL
RECURSIVE SegmentEnd(_, _, _)
SegmentEnd(path, sep, e) ==
    IF e <= Len(path) /\ path[e] # sep THEN SegmentEnd(path, sep, e + 1) ELSE e

\* the hunt keeping the last match of the chain instead of stopping at the first
HuntLast(cn, seg, i) ==
    IF \E j \in i .. Len(cn) : _tok_match(cn[j].key, seg)
    THEN CHOOSE j \in i .. Len(cn) :
             /\ _tok_match(cn[j].key, seg)
             /\ \A m \in j + 1 .. Len(cn) : ~_tok_match(cn[m].key, seg)
    ELSE 0

\* "hunt for the node": index in the chain cn of the node the walk stops at,
\* from index i on; 0 when the walk runs off the chain
RECURSIVE Hunt(_, _, _)
Hunt(cn, seg, i) ==
    IF i > Len(cn) THEN 0
    ELSE IF _tok_match(cn[i].key, seg) THEN i
    ELSE Hunt(cn, seg, i + 1)

\* find_config_node(cn, path, sep), cn being the chain whose parent is at `at`
RECURSIVE FindFrom(_, _, _, _)
FindFrom(cn, path, sep, at) ==
    IF cn = << >> THEN NULL
    ELSE LET p1 == TrimSep(path, sep)
             e == SegmentEnd(p1, sep, 1)
             m == Hunt(cn, SubSeq(p1, 1, e - 1), 1)
         IN  IF m # 0 /\ e <= Len(p1)
             THEN FindFrom(cn[m].child, SubSeq(p1, e, Len(p1)), sep, Append(at, m))
             ELSE IF m = 0 THEN NULL ELSE Append(at, m)

find_config_node(cn, path, sep) == FindFrom(cn, path, sep, << >>)

\* the node at a non-NULL position of the chain cn
RECURSIVE NodeAt(_, _)
NodeAt(cn, pos) ==
    IF Len(pos) = 1 THEN cn[pos[1]] ELSE NodeAt(cn[pos[1]].child, Tail(pos))

-----------------------------------------------------------------------------
(* Inputs *)

Alphabet == {"a", "=", "1", "\"", "\\", "\n", "#", "{", "}", "["}

\* the texts of length n over Alphabet
Texts(n) == [1 .. n -> Alphabet]

ShortTexts == UNION {Texts(n) : n \in 0 .. MaxLen}

Binding(k, v) == [_create_node(k) EXCEPT !.v = v]
Section(k, c) == [_create_node(k) EXCEPT !.child = c]

TopNodes ==
    { Binding(<<"a">>, <<IntValue(1)>>),
      Binding(<<"b">>, <<StringValue(<<"s">>)>>),
      Binding(<<"b">>, <<IntValue(12), FloatValue(<<15, 1>>), StringValue(<<"\\", "\"">>)>>),
      Section(<<"a">>, << >>),
      Section(<<"a">>, <<Binding(<<"b">>, <<IntValue(1)>>)>>),
      Section(<<"a">>, <<Binding(<<"a">>, <<FloatValue(<<5, 1>>)>>),
                         Section(<<"b">>, <<Binding(<<"a">>, <<StringValue(<<"s">>)>>)>>)>>) }

RECURSIVE Forests(_)
Forests(n) ==
    IF n = 0 THEN {<< >>}
    ELSE LET S == Forests(n - 1)
         IN  S \cup {Append(x, c) : x \in {y \in S : Len(y) = n - 1}, c \in TopNodes}

\* texts in the serialiser's layout
TreeTexts == {_write_config(f, 0) : f \in Forests(MaxTop)}

Inputs == ShortTexts \cup TreeTexts

Seps == {"/"}

PathChars == {"a", "b", "/"}

RECURSIVE PathsTo(_)
PathsTo(n) ==
    IF n = 0 THEN {<< >>}
    ELSE LET S == PathsTo(n - 1)
         IN  S \cup {Append(x, c) : x \in {y \in S : Len(y) = n - 1}, c \in PathChars}

Paths == PathsTo(MaxPath)

StrDefaults == {<<"d">>}
IntDefaults == {-1}
FloatDefaults == {<<-1, 0>>}

-----------------------------------------------------------------------------
(* State *)

NoRes == [kind |-> "none", path |-> << >>, sep |-> "/", node |-> NULL, str |-> << >>,
          i |-> 0, f |-> <<0, 0>>, fault |-> FALSE]

Init ==
    /\ arena = "live"
    /\ destroys = 0
    /\ releases = 0
    /\ uaf = FALSE
    /\ pc = "idle"
    /\ buf = << >>
    /\ t = TOK_EOF
    /\ tb = 1
    /\ te = 1
    /\ line = 1
    /\ nl = 0
    /\ unterm = FALSE
    /\ blank = FALSE
    /\ stk = << >>
    /\ nkey = << >>
    /\ vals = << >>
    /\ ret = "value"
    /\ root = NULL
    /\ r = 0
    /\ reads = 0
    /\ errline = 0
    /\ written = << >>
    /\ prev = << >>
    /\ rt = FALSE
    /\ res = NoRes

life == <<arena, destroys, releases, uaf>>
cursor == <<buf, t, tb, te, line, nl>>
seen == <<unterm, blank>>
build == <<stk, nkey, vals, ret>>
doc == <<root, r, reads, errline>>
io == <<written, prev, rt>>

\* newline characters of b in [from, to)
RECURSIVE CountNL(_, _, _)
CountNL(b, from, to) ==
    IF from >= to THEN 0
    ELSE (IF b[from] = "\n" THEN 1 ELSE 0) + CountNL(b, from + 1, to)

\* tk is a string token whose opening quote has no closing quote in b
Unterminated(b, tk) == tk.t = TOK_STRING /\ ScanString(b, tk.tb + 1) = fe(b)

\* only whitespace and comments from index i of b on
RECURSIVE BlankFrom(_, _, _)
BlankFrom(b, i, incomment) ==
    IF i > Len(b) THEN TRUE
    ELSE IF incomment THEN BlankFrom(b, i + 1, b[i] # "\n")
    ELSE IF b[i] = "#" THEN BlankFrom(b, i + 1, TRUE)
    ELSE isspace(b[i]) /\ BlankFrom(b, i + 1, FALSE)

\* the parser's fields after _get_token, called with p->te = e, returned tk
SetToken(b, e, tk) ==
    /\ t' = tk.t
    /\ tb' = tk.tb
    /\ te' = tk.te
    /\ line' = tk.line
    /\ nl' = nl + CountNL(b, e, tk.tb)
    /\ unterm' = (unterm \/ Unterminated(b, tk))
    /\ blank' = blank

\* _match_aux succeeded: _get_token from p->te = e
Advance(e) == SetToken(buf, e, _get_token(buf, e, line))

\* _file handing back the nodes linked so far instead of 0
_file_failed_partial(kids) == kids

\* what _file returns once a _section has returned 0, kids being the nodes
\* it has linked so far
_file_failed(kids) == NULL

\* read_config from "cf->root = _file(p)" on: fileroot is what _file returned
Return(fileroot, errl) ==
    /\ root' = fileroot
    /\ r' = IF fileroot = NULL THEN 0 ELSE 1
    /\ reads' = reads + 1
    /\ errline' = errl
    /\ pc' = "idle"
    /\ buf' = << >>
    /\ t' = TOK_EOF
    /\ tb' = 1
    /\ te' = 1
    /\ line' = 1
    /\ nl' = 0
    /\ stk' = << >>
    /\ nkey' = << >>
    /\ vals' = << >>
    /\ ret' = "value"
    /\ UNCHANGED <<life, seen, io, res>>

\* a production returned 0 after logging line errl (0: nothing was logged);
\* every caller up to _file returns 0 in turn
Fail(errl) == Return(_file_failed(stk[1].kids), errl)

\* l->sib = n (or root = n, root->child = n) in the innermost activation
Link(s, n) == [s EXCEPT ![Len(s)].kids = Append(@, n)]

-----------------------------------------------------------------------------
(* read_config *)

ReadConfig ==
    /\ pc = "idle"
    /\ arena = "live"
    /\ IF written = << >> THEN reads = 0 ELSE ~rt
    /\ \E text \in (IF written = << >> THEN Inputs ELSE {written[1]}) :
         /\ buf' = text
         /\ LET tk == _get_token(text, 1, 1)
            IN  /\ t' = tk.t
                /\ tb' = tk.tb
                /\ te' = tk.te
                /\ line' = tk.line
                /\ nl' = CountNL(text, 1, tk.tb)
                /\ unterm' = Unterminated(text, tk)
         /\ blank' = BlankFrom(text, 1, FALSE)
    /\ stk' = <<[key |-> << >>, kids |-> << >>]>>
    /\ pc' = "body"
    /\ errline' = 0
    /\ rt' = (written # << >>)
    /\ res' = NoRes
    /\ UNCHANGED <<life, nkey, vals, ret, root, r, reads, written, prev>>

\* the token that ends the loop of the innermost activation
Closer == IF Len(stk) = 1 THEN TOK_EOF ELSE TOK_SECTION_E

\* _section: the node, its key, match(TOK_IDENTIFIER)
SectionKey ==
    /\ pc = "body"
    /\ t # Closer
    /\ IF t # TOK_IDENTIFIER THEN Fail(line)
       ELSE /\ nkey' = Slice(buf, tb, te)
            /\ Advance(te)
            /\ pc' = "open"
            /\ UNCHANGED <<life, buf, stk, vals, ret, doc, io, res>>

\* _section: '{' or '='
SectionOpen ==
    /\ pc = "open"
    /\ IF t = TOK_SECTION_B
       THEN /\ Advance(te)
            /\ stk' = Append(stk, [key |-> nkey, kids |-> << >>])
            /\ pc' = "body"
            /\ UNCHANGED <<life, buf, nkey, vals, ret, doc, io, res>>
       ELSE IF t # TOK_EQ THEN Fail(line)
       ELSE /\ Advance(te)
            /\ pc' = "value"
            /\ UNCHANGED <<life, buf, build, doc, io, res>>

\* _section: match(TOK_SECTION_E), return root
SectionClose ==
    /\ pc = "body"
    /\ Len(stk) > 1
    /\ t = TOK_SECTION_E
    /\ Advance(te)
    /\ LET top == stk[Len(stk)]
           n == [_create_node(top.key) EXCEPT !.child = top.kids]
       IN  stk' = Link(SubSeq(stk, 1, Len(stk) - 1), n)
    /\ pc' = "body"
    /\ UNCHANGED <<life, buf, nkey, vals, ret, doc, io, res>>

\* _file: the loop ends, return root
FileEnd ==
    /\ pc = "body"
    /\ Len(stk) = 1
    /\ t = TOK_EOF
    /\ Return(stk[1].kids, errline)

\* _type returned v to the production ctx, the next token being tk
Deliver(ctx, v, tk) ==
    IF ctx = "value"
    THEN /\ stk' = Link(stk, [_create_node(nkey) EXCEPT !.v = <<v>>])
         /\ vals' = << >>
         /\ pc' = "body"
    ELSE /\ vals' = Append(vals, v)
         /\ stk' = stk
         /\ pc' = IF tk.t = TOK_COMMA THEN "comma" ELSE "array"

\* _type, called from ctx
Type(ctx) ==
    CASE t = TOK_INT ->
           LET tk == _get_token(buf, te, line)
           IN  /\ SetToken(buf, te, tk)
               /\ Deliver(ctx, IntValue(strtol(buf, tb)), tk)
               /\ UNCHANGED <<life, buf, nkey, ret, doc, io, res>>
      [] t = TOK_FLOAT ->
           LET tk == _get_token(buf, te, line)
           IN  /\ SetToken(buf, te, tk)
               /\ Deliver(ctx, FloatValue(strtod(buf, tb)), tk)
               /\ UNCHANGED <<life, buf, nkey, ret, doc, io, res>>
      [] t = TOK_STRING ->
           /\ tb' = tb + 1
           /\ te' = te - 1
           /\ ret' = ctx
           /\ pc' = "strip"
           /\ UNCHANGED <<life, buf, t, line, nl, seen, stk, nkey, vals, doc, io,
                          res>>
      [] OTHER -> Fail(line)

\* _value: TYPE
ValueScalar ==
    /\ pc = "value"
    /\ t # TOK_ARRAY_B
    /\ Type("value")

\* _value: '['
ValueArray ==
    /\ pc = "value"
    /\ t = TOK_ARRAY_B
    /\ Advance(te)
    /\ vals' = << >>
    /\ pc' = "array"
    /\ UNCHANGED <<life, buf, stk, nkey, ret, doc, io, res>>

\* _value: one TYPE of the array
ArrayElem ==
    /\ pc = "array"
    /\ t # TOK_ARRAY_E
    /\ Type("array")

\* _value: match(TOK_COMMA)
ArrayComma ==
    /\ pc = "comma"
    /\ Advance(te)
    /\ pc' = "array"
    /\ UNCHANGED <<life, buf, build, doc, io, res>>

\* _value: match(TOK_ARRAY_E), return h; _section: root->v = h
ArrayEnd ==
    /\ pc = "array"
    /\ t = TOK_ARRAY_E
    /\ IF vals = << >> THEN Fail(errline)
       ELSE /\ Advance(te)
            /\ stk' = Link(stk, [_create_node(nkey) EXCEPT !.v = vals])
            /\ vals' = << >>
            /\ pc' = "body"
            /\ UNCHANGED <<life, buf, nkey, ret, doc, io, res>>

\* the state a crashed process is left in
Crash ==
    /\ pc' = "fault"
    /\ UNCHANGED <<life, cursor, seen, build, doc, io, res>>

\* _type, case TOK_STRING after "p->tb++, p->te--": _dup_tok, p->te++,
\* match(TOK_STRING).  With te < tb the length _dup_tok hands to strncpy is
\* (size_t) -1 and the buffer it allocated holds one byte: undefined
\* behaviour; the copy cannot complete and the process crashes.
TypeString ==
    /\ pc = "strip"
    /\ \/ /\ te >= tb
          /\ LET tk == _get_token(buf, te + 1, line)
             IN  /\ SetToken(buf, te + 1, tk)
                 /\ Deliver(ret, StringValue(Slice(buf, tb, te)), tk)
                 /\ UNCHANGED <<life, buf, nkey, ret, doc, io, res>>
       \/ /\ te < tb
          /\ Crash

-----------------------------------------------------------------------------
(* write_config *)

WriteConfig ==
    /\ pc = "idle"
    /\ arena = "live"
    /\ written = << >>
    /\ written' = <<_write_config(root, 0)>>
    /\ prev' = root
    /\ res' = NoRes
    /\ UNCHANGED <<life, pc, cursor, seen, build, doc, rt>>

-----------------------------------------------------------------------------
(* find_config_node, find_config_str, find_config_int, find_config_float.   *)
(* A lookup writes nothing a later call reads; res only records the latest  *)
(* call, so the model follows one lookup from each state of the document.   *)
(* The root of a fresh document is the root a failed read_config leaves;    *)
(* lookups are followed on documents that were read.                        *)

FindConfigNode ==
    /\ pc = "idle"
    /\ arena = "live"
    /\ reads > 0
    /\ res = NoRes
    /\ \E path \in Paths, sep \in Seps :
         res' = [NoRes EXCEPT !.kind = "node", !.path = path, !.sep = sep,
                              !.node = find_config_node(root, path, sep)]
    /\ UNCHANGED <<life, pc, cursor, seen, build, doc, io>>

\* "n->v->type" with n->v = NULL reads through a null pointer: undefined
\* behaviour, which either crashes or reads a type that is not the one asked
\* for
NullValue(n) == n # NULL /\ NodeAt(root, n).v = << >>

\* "n && n->v->type == type", n->v not being NULL
Typed(n, type) == n # NULL /\ NodeAt(root, n).v[1].type = type

FindConfigStr ==
    /\ pc = "idle"
    /\ arena = "live"
    /\ reads > 0
    /\ res = NoRes
    /\ \E path \in Paths, sep \in Seps, fail \in StrDefaults :
         LET n == find_config_node(root, path, sep)
             q == [NoRes EXCEPT !.kind = "str", !.path = path, !.sep = sep,
                                !.node = n,
                                !.str = fail]
         IN  IF NullValue(n)
             THEN \/ res' = [q EXCEPT !.fault = TRUE] /\ pc' = "fault"
                  \/ res' = q /\ pc' = pc
             ELSE /\ res' = IF Typed(n, CFG_STRING)
                            THEN [q EXCEPT !.str = NodeAt(root, n).v[1].str]
                            ELSE q
                  /\ pc' = pc
    /\ UNCHANGED <<life, cursor, seen, build, doc, io>>

FindConfigInt ==
    /\ pc = "idle"
    /\ arena = "live"
    /\ reads > 0
    /\ res = NoRes
    /\ \E path \in Paths, sep \in Seps, fail \in IntDefaults :
         LET n == find_config_node(root, path, sep)
             q == [NoRes EXCEPT !.kind = "int", !.path = path, !.sep = sep,
                                !.node = n,
                                !.i = fail]
         IN  IF NullValue(n)
             THEN \/ res' = [q EXCEPT !.fault = TRUE] /\ pc' = "fault"
                  \/ res' = q /\ pc' = pc
             ELSE /\ res' = IF Typed(n, CFG_INT)
                            THEN [q EXCEPT !.i = NodeAt(root, n).v[1].i]
                            ELSE q
                  /\ pc' = pc
    /\ UNCHANGED <<life, cursor, seen, build, doc, io>>

FindConfigFloat ==
    /\ pc = "idle"
    /\ arena = "live"
    /\ reads > 0
    /\ res = NoRes
    /\ \E path \in Paths, sep \in Seps, fail \in FloatDefaults :
         LET n == find_config_node(root, path, sep)
             q == [NoRes EXCEPT !.kind = "float", !.path = path, !.sep = sep,
                                !.node = n,
                                !.f = fail]
         IN  IF NullValue(n)
             THEN \/ res' = [q EXCEPT !.fault = TRUE] /\ pc' = "fault"
                  \/ res' = q /\ pc' = pc
             ELSE /\ res' = IF Typed(n, CFG_FLOAT)
                            THEN [q EXCEPT !.f = NodeAt(root, n).v[1].r]
                            ELSE q
                  /\ pc' = pc
    /\ UNCHANGED <<life, cursor, seen, build, doc, io>>

-----------------------------------------------------------------------------
(* destroy_config_file.  The struct cs lies in the pool it names, so a call *)
(* on a released document reads c->mem from released memory and hands what  *)
(* it read to pool_destroy: undefined behaviour, which either releases the  *)
(* pool once more or crashes.  Nothing of a document outlives its pool: the *)
(* model forgets the document when the pool goes.                           *)

DestroyConfigFile ==
    /\ pc = "idle"
    /\ destroys < MaxDestroy
    /\ destroys' = destroys + 1
    /\ \/ /\ arena = "live"
          /\ arena' = "released"
          /\ releases' = releases + 1
          /\ root' = NULL
          /\ r' = 0
          /\ reads' = 0
          /\ errline' = 0
          /\ written' = << >>
          /\ prev' = << >>
          /\ rt' = FALSE
          /\ res' = NoRes
          /\ unterm' = FALSE
          /\ blank' = FALSE
          /\ UNCHANGED <<uaf, pc, cursor, build>>
       \/ /\ arena = "released"
          /\ uaf' = TRUE
          /\ releases' = releases + 1
          /\ UNCHANGED <<arena, pc, cursor, seen, build, doc, io, res>>
       \/ /\ arena = "released"
          /\ uaf' = TRUE
          /\ pc' = "fault"
          /\ UNCHANGED <<arena, releases, cursor, seen, build, doc, io, res>>

-----------------------------------------------------------------------------

Next ==
    \/ ReadConfig
    \/ SectionKey
    \/ SectionOpen
    \/ SectionClose
    \/ FileEnd
    \/ ValueScalar
    \/ ValueArray
    \/ ArrayElem
    \/ ArrayComma
    \/ ArrayEnd
    \/ TypeString
    \/ WriteConfig
    \/ FindConfigNode
    \/ FindConfigStr
    \/ FindConfigInt
    \/ FindConfigFloat
    \/ DestroyConfigFile

Spec == Init /\ [][Next]_vars

-----------------------------------------------------------------------------
(* Properties *)

\* read_config has returned success and the document is in use
Parsed == pc = "idle" /\ reads > 0 /\ r = 1

\* every node of the forest cn
RECURSIVE Nodes(_)
Nodes(cn) ==
    IF cn = << >> THEN {}
    ELSE {Head(cn)} \cup Nodes(Head(cn).child) \cup Nodes(Tail(cn))

\* the segments of a path: its maximal runs of characters other than sep
RECURSIVE Segments(_, _, _)
Segments(path, sep, cur) ==
    LET done == IF cur = << >> THEN << >> ELSE <<cur>>
    IN  IF path = << >> THEN done
        ELSE IF Head(path) = sep THEN done \o Segments(Tail(path), sep, << >>)
        ELSE Segments(Tail(path), sep, Append(cur, Head(path)))

\* index of the first sibling of cn whose key is k, 0 without one
FirstWithKey(cn, k) ==
    IF \E i \in 1 .. Len(cn) : cn[i].key = k
    THEN CHOOSE i \in 1 .. Len(cn) :
             cn[i].key = k /\ \A j \in 1 .. i - 1 : cn[j].key # k
    ELSE 0

\* the position reached by taking segs in order, the first sibling with the
\* segment's key at each level, the children only while segments remain
RECURSIVE Resolve(_, _, _)
Resolve(cn, segs, at) ==
    LET i == FirstWithKey(cn, Head(segs))
    IN  IF i = 0 THEN NULL
        ELSE IF Len(segs) = 1 THEN Append(at, i)
        ELSE Resolve(cn[i].child, Tail(segs), Append(at, i))

\* the values of the node a lookup's path resolves to, << >> without a node
ResolvedValues ==
    LET n == find_config_node(root, res.path, res.sep)
    IN  IF n = NULL THEN << >> ELSE NodeAt(root, n).v

\* C1: find_config_str, find_config_int and find_config_float complete
\* without fault; each returns the first value of the node the path resolves
\* to when that value has exactly the requested type, and the caller's
\* default in every other case, a section node with no values included.
C1_LookupsNeverFail ==
    res.kind \in {"str", "int", "float"} =>
        /\ ~res.fault
        /\ pc # "fault"
        /\ LET vs == ResolvedValues
               is(type) == vs # << >> /\ vs[1].type = type
           IN  CASE res.kind = "str" ->
                      IF is(CFG_STRING) THEN res.str = vs[1].str
                      ELSE res.str \in StrDefaults
                 [] res.kind = "int" ->
                      IF is(CFG_INT) THEN res.i = vs[1].i
                      ELSE res.i \in IntDefaults
                 [] res.kind = "float" ->
                      IF is(CFG_FLOAT) THEN res.f = vs[1].r
                      ELSE res.f \in FloatDefaults

\* C2: a read_config that met a grammar mismatch (the parser logged an error,
\* or returned failure) returns failure and leaves the root empty: no path
\* finds a node built during the failed parse.
C2_FailureLeavesNoNode ==
    (pc = "idle" /\ reads > 0 /\ (errline # 0 \/ r = 0)) =>
        /\ r = 0
        /\ root = NULL
        /\ \A path \in Paths, sep \in Seps :
               find_config_node(root, path, sep) = NULL

\* C2, reached: a mismatch was logged on a line after the first
C2_Witness == pc = "idle" /\ reads > 0 /\ errline > 1 /\ r = 0

\* C3: read_config of a text that is empty or holds only whitespace and
\* comments reports success and leaves an empty root.
C3_BlankInputSucceeds ==
    (pc = "idle" /\ reads > 0 /\ blank) => (r = 1 /\ root = NULL)

\* two value chains agree in length, types, integers and strings
SameValues(v, w) ==
    /\ Len(v) = Len(w)
    /\ \A i \in 1 .. Len(v) :
           /\ v[i].type = w[i].type
           /\ v[i].type = CFG_INT => v[i].i = w[i].i
           /\ v[i].type = CFG_STRING => v[i].str = w[i].str

\* two forests agree in shape, sibling order, keys and values
RECURSIVE SameDoc(_, _)
SameDoc(a, b) ==
    /\ Len(a) = Len(b)
    /\ \A i \in 1 .. Len(a) :
           /\ a[i].key = b[i].key
           /\ SameValues(a[i].v, b[i].v)
           /\ SameDoc(a[i].child, b[i].child)

\* C4: the text write_config emits for a successfully parsed document parses
\* successfully again, to a tree of the same shape, keys and values.
C4_RoundTrip ==
    (pc = "idle" /\ rt /\ prev # NULL) => (r = 1 /\ SameDoc(root, prev))

\* C5: for a non-empty path that does not end in the separator,
\* find_config_node returns the node reached by taking the segments in
\* order, the first sibling with the segment's key at each level, without
\* backtracking and without descending into the last node.
C5_FindFollowsFirstMatch ==
    (res.kind = "node" /\ res.path # << >>
                       /\ res.path[Len(res.path)] # res.sep) =>
        res.node = Resolve(root, Segments(res.path, res.sep, << >>), << >>)

\* C5, reached: a nested path fails at the first sibling with the key although
\* a later sibling with that key holds the child
C5_Witness ==
    /\ res.kind = "node"
    /\ res.path = <<"a", "/", "b">>
    /\ res.node = NULL
    /\ \E i \in 1 .. Len(root) :
           /\ root[i].key = <<"a">>
           /\ \E j \in 1 .. Len(root[i].child) : root[i].child[j].key = <<"b">>

\* C6: every node of a successfully parsed document is a section XOR a
\* binding: children and no values, or values and no children.
C6_SectionXorBinding ==
    Parsed => \A n \in Nodes(root) :
                  \/ n.child # << >> /\ n.v = << >>
                  \/ n.v # << >> /\ n.child = << >>

\* C6, amended: no node of a successfully parsed document has both children
\* and values; a node without values is a section, whose children may be
\* none (the text "a { }").
C6_NeverBoth ==
    Parsed => \A n \in Nodes(root) : n.v = << >> \/ n.child = << >>

\* C6, reached: a parsed document with an empty section beside a binding
C6_Witness ==
    /\ Parsed
    /\ \E n \in Nodes(root) : n.child = << >> /\ n.v = << >>
    /\ \E n \in Nodes(root) : n.v # << >>

\* C7: destroy_config_file releases the arena once; a second call neither
\* releases it again nor reads memory the first call released.
C7_DestroyIdempotent == releases <= 1 /\ ~uaf

\* C8: when a string literal has no closing quote before the end of the
\* buffer, the parse fails: read_config returns failure and no binding
\* holding the literal is left.
C8_UnterminatedStringFails ==
    (pc = "idle" /\ reads > 0 /\ unterm) => (r = 0 /\ root = NULL)

\* C9: the line counter is 1 plus the number of newline characters the
\* tokeniser has skipped.
C9_LineCountsNewlines == line = 1 + nl

\* C10: the token limits stay ordered inside the buffer, fb <= tb <= te <= fe,
\* also where _dup_tok is called after the quotes are stripped.
C10_CursorInBuffer == 1 <= tb /\ tb <= te /\ te <= fe(buf)

====
